---- MODULE Spec2Model ----
(***************************************************************************)
(* Batch position closing of the MT5 REST facade                           *)
(* (backend/mt5/app/routes/position.py): the endpoints                     *)
(* close_all_positions (thread pool, one worker per position) and          *)
(* close_positions_batch (loop over the tickets of the request body),      *)
(* run against the trading terminal, which is modelled by the set of open  *)
(* positions, the state of the process-wide connection and, for every      *)
(* call, a nondeterministic outcome (a value, an error return or an        *)
(* exception).                                                             *)
(***************************************************************************)
EXTENDS Integers, Sequences, FiniteSets, TLC

\* ---------------------------------------------------------------- bounds
NumTickets == 2
MaxLen == 2
MaxRequests == 2
NumMagics == 2

\* ------------------------------------------------------- input universes
Tickets == 1..NumTickets

\* A JSON element of 'tickets' that is not an integer (a string, a float).
NonIntElem == 0

\* The request carries no 'magic' query parameter.
NoMagic == 0

Magics == 1..NumMagics

\* The snapshot of a position: side, symbol and magic tag are fixed per ticket.
PosType(t) == IF t % 2 = 1 THEN "buy" ELSE "sell"

PosSymbol(t) == IF t % 2 = 1 THEN "EURUSD" ELSE "GBPUSD"

PosMagic(t) == ((t - 1) % NumMagics) + 1

\* volume of the position, in hundredths of a lot
PosVolume(t) == 10 * t

\* the quote of a symbol, in points
Bid(sym) == IF sym = "EURUSD" THEN 11000 ELSE 12500

Ask(sym) == Bid(sym) + 2

Quote(sym) == [bid |-> Bid(sym), ask |-> Ask(sym)]

\* values of the constants of the MetaTrader5 package
POSITION_TYPE_BUY == 0

POSITION_TYPE_SELL == 1

ORDER_TYPE_BUY == 0

ORDER_TYPE_SELL == 1

\* pos.type / position_info.type
PosTypeCode(t) == IF PosType(t) = "buy" THEN POSITION_TYPE_BUY ELSE POSITION_TYPE_SELL

TicketLists == UNION {[1..n -> Tickets \cup {NonIntElem}] : n \in 0..MaxLen}

\* What request.get_json() can hand to close_positions_batch: null, {},
\* an object without 'tickets', an object whose 'tickets' is not a list,
\* and an object whose 'tickets' is a list.
Bodies ==
  {[kind |-> k, tickets |-> <<>>] : k \in {"null", "emptyobj", "nokey", "notlist"}}
    \cup {[kind |-> "list", tickets |-> s] : s \in TicketLists}

VARIABLES
  open,         \* terminal: tickets of the open positions
  initialized,  \* terminal: the process-wide connection is initialized
  doneTickets,  \* terminal: tickets closed by an order that returned DONE
  nreq,         \* number of requests served so far
  endpoint,     \* "none" | "close_all" | "batch"
  pc,           \* position of the request thread
  magic,        \* 'magic' query parameter of close_all_positions
  data,         \* body of close_positions_batch
  items,        \* positions / tickets_to_close: the dispatched items
  idx,          \* loop index of close_positions_batch
  res,          \* per item: the outcome of each gateway call made for it
  calls,        \* gateway calls made by the current request, per kind
  closed,       \* closed / successful_closes
  failed,       \* failed / failed_closes
  status,       \* HTTP status of the response, 0 while none
  upfront,      \* outcomes of mt5.initialize() and mt5.positions_get()
  wpc,          \* per worker of the pool: its position
  wret,         \* per worker: the value its future returns
  ord,          \* the request of POST /order: body, position, request, response
  other         \* a second close_all_positions request served by another thread

vars == <<open, initialized, doneTickets, nreq, endpoint, pc, magic, data,
          items, idx, res, calls, closed, failed, status, upfront, wpc, wret,
          ord, other>>

\* what the handlers of routes/position.py leave alone
extra == <<ord, other>>

gateway == <<open, initialized, doneTickets>>

\* ------------------------------------------------------------ the gateway
InitializeOutcomes == {"true", "false", "raise"}

ListOutcomes == IF initialized THEN {"list", "none", "raise"} ELSE {"none", "raise"}

LookupOutcomes(t) ==
  IF initialized /\ t \in Tickets
    THEN (IF t \in open THEN {"found"} ELSE {"empty"}) \cup {"none", "raise"}
    ELSE {"none", "raise"}

TickOutcomes == IF initialized THEN {"ok", "none", "raise"} ELSE {"none", "raise"}

OrderOutcomes(t) ==
  IF initialized
    THEN (IF t \in open THEN {"done"} ELSE {}) \cup {"reject", "none", "raise"}
    ELSE {"none", "raise"}

\* An order that returned DONE removes the position from the open set.
OpenAfterOrder(t, o) == IF o = "done" THEN open \ {t} ELSE open

DoneAfterOrder(t, o) == IF o = "done" THEN doneTickets \cup {t} ELSE doneTickets

\* ------------------------------------------------------------ helpers
RECURSIVE SortedSeq(_)
SortedSeq(S) ==
  IF S = {} THEN <<>>
  ELSE LET m == CHOOSE x \in S : \A y \in S : x <= y
       IN <<m>> \o SortedSeq(S \ {m})

NoRequest == [position |-> 0, symbol |-> "", volume |-> 0, type |-> 0, price |-> 0]

EmptyRes ==
  [lookup |-> "-", tick |-> "-", order |-> "-", wasClosed |-> FALSE, sends |-> 0,
   req |-> NoRequest]

ZeroCalls == [list |-> 0, lookup |-> 0, tick |-> 0, order |-> 0]

NoUpfront == [init |-> "-", list |-> "-", conn |-> FALSE]

ClosedEntry(i, t) == [item |-> i, ticket |-> t]

FailedEntry(i, t, e) == [item |-> i, ticket |-> t, error |-> e]

Bump(c, k) == [c EXCEPT ![k] = @ + 1]

\* ------------------------------------------------- the close request
\* line 144: SELL if pos.type == mt5.POSITION_TYPE_BUY else BUY
WorkerOrderType(ptype) ==
  IF ptype = POSITION_TYPE_BUY THEN ORDER_TYPE_SELL ELSE ORDER_TYPE_BUY

\* line 479: SELL if position_info.type == mt5.ORDER_TYPE_BUY else BUY
BatchOrderType(ptype) ==
  IF ptype = ORDER_TYPE_BUY THEN ORDER_TYPE_SELL ELSE ORDER_TYPE_BUY

\* bid and ask taken the wrong way round
ClosePrice_swapped(otype, tick) == IF otype = ORDER_TYPE_SELL THEN tick.ask ELSE tick.bid

\* lines 145 and 488: bid if order_type == mt5.ORDER_TYPE_SELL else ask
ClosePrice(otype, tick) == IF otype = ORDER_TYPE_SELL THEN tick.bid ELSE tick.ask

\* lines 147-159 and 491-503: the fields of the request that depend on the
\* position
CloseRequest(t, otype, price) ==
  [position |-> t, symbol |-> PosSymbol(t), volume |-> PosVolume(t),
   type |-> otype, price |-> price]

\* ------------------------------------------------- close_positions_batch
\* line 461: not data or 'tickets' not in data or not isinstance(.., list)
BodyRejected(d) ==
  \/ d.kind \in {"null", "emptyobj"}
  \/ d.kind \notin {"notlist", "list"}
  \/ d.kind # "list"

\* the check of line 471 written as "position_info_tuple is None"
NotFound_isNone(o) == o = "none"

\* line 471: not position_info_tuple

NotFound(o) == o \in {"none", "empty"}

\* the check of line 483 left out
TickMissing_never(o) == FALSE

\* line 483: tick is None

TickMissing(o) == o = "none"

\* the check of line 508 written as "if result"
BatchClosed_anyResult(o) == o # "none"

\* line 508: result and result.retcode == mt5.TRADE_RETCODE_DONE

BatchClosed(o) == o # "none" /\ o = "done"

\* line 512: result.comment if result else "order_send returned None"
BatchError(o) == IF o # "none" THEN "comment" ELSE "order_send returned None"

\* the continue of lines 474 and 486 written as break
NextIter_break(i, n) == "return"

\* the for loop of line 468: after item i of n, the next iteration or the
\* return of line 516

NextIter(i, n) == IF i < n THEN "lookup" ELSE "return"

ResetRequest ==
  /\ nreq' = nreq + 1
  /\ closed' = <<>>
  /\ failed' = <<>>
  /\ calls' = ZeroCalls
  /\ wpc' = <<>>
  /\ wret' = <<>>

StartBatch(d) ==
  /\ UNCHANGED extra
  /\ pc \in {"idle", "done"}
  /\ nreq < MaxRequests
  /\ ResetRequest
  /\ endpoint' = "batch"
  /\ data' = d
  /\ magic' = NoMagic
  /\ upfront' = [NoUpfront EXCEPT !.conn = initialized]
  /\ IF BodyRejected(d)
       THEN /\ items' = <<>>
            /\ res' = <<>>
            /\ idx' = 0
            /\ status' = 400
            /\ pc' = "done"
       ELSE /\ items' = d.tickets
            /\ res' = [i \in 1..Len(d.tickets) |-> EmptyRes]
            /\ idx' = 1
            /\ IF Len(d.tickets) = 0
                 THEN status' = 200 /\ pc' = "done"
                 ELSE status' = 0 /\ pc' = "lookup"
  /\ UNCHANGED gateway

\* the loop taking the same ticket again
NextIndex_same(i) == i

\* line 468: the for loop moves on to the next element of tickets_to_close
NextIndex(i) == i + 1

\* the end of one iteration: continue with the next ticket or return 200
BatchAdvance ==
  IF NextIter(idx, Len(items)) = "lookup"
    THEN pc' = "lookup" /\ idx' = NextIndex(idx) /\ status' = status
    ELSE pc' = "done" /\ idx' = idx /\ status' = 200

\* an exception reaches the except clause of line 522
BatchCrash ==
  /\ pc' = "done"
  /\ idx' = idx
  /\ status' = 500
  /\ closed' = closed
  /\ failed' = failed

BatchLookup ==
  /\ UNCHANGED extra
  /\ endpoint = "batch"
  /\ pc = "lookup"
  /\ LET t == items[idx] IN
     \E o \in LookupOutcomes(t) :
       /\ res' = [res EXCEPT ![idx].lookup = o, ![idx].wasClosed = (t \in doneTickets)]
       /\ calls' = Bump(calls, "lookup")
       /\ IF o = "raise"
            THEN BatchCrash
            ELSE IF NotFound(o)
              THEN /\ failed' = Append(failed, FailedEntry(idx, t, "Position not found."))
                   /\ closed' = closed
                   /\ BatchAdvance
              ELSE IF o # "found"
                \* position_info_tuple[0] of a tuple that holds nothing
                THEN BatchCrash
                ELSE /\ pc' = "tick"
                     /\ UNCHANGED <<idx, status, closed, failed>>
  /\ UNCHANGED <<gateway, nreq, endpoint, magic, data, items, upfront, wpc, wret>>

BatchTick ==
  /\ UNCHANGED extra
  /\ endpoint = "batch"
  /\ pc = "tick"
  /\ LET t == items[idx] IN
     \E o \in TickOutcomes :
       /\ res' = [res EXCEPT ![idx].tick = o]
       /\ calls' = Bump(calls, "tick")
       /\ IF o = "raise"
            THEN BatchCrash
            ELSE IF TickMissing(o)
              THEN /\ failed' = Append(failed, FailedEntry(idx, t, "Failed to get price"))
                   /\ closed' = closed
                   /\ BatchAdvance
              ELSE /\ pc' = "send"
                   /\ UNCHANGED <<idx, status, closed, failed>>
  /\ UNCHANGED <<gateway, nreq, endpoint, magic, data, items, upfront, wpc, wret>>

BatchSend ==
  /\ UNCHANGED extra
  /\ endpoint = "batch"
  /\ pc = "send"
  /\ LET t == items[idx] IN
     \E o \in OrderOutcomes(t) :
       /\ res' = [res EXCEPT ![idx].order = o,
                             ![idx].sends = @ + 1,
                             ![idx].req = LET ot == BatchOrderType(PosTypeCode(t))
                                          IN CloseRequest(t, ot, ClosePrice(ot, Quote(PosSymbol(t))))]
       /\ calls' = Bump(calls, "order")
       /\ open' = OpenAfterOrder(t, o)
       /\ doneTickets' = DoneAfterOrder(t, o)
       /\ IF o = "raise"
            THEN BatchCrash
            ELSE /\ IF BatchClosed(o)
                      THEN /\ closed' = Append(closed, ClosedEntry(idx, t))
                           /\ failed' = failed
                      ELSE /\ failed' = Append(failed, FailedEntry(idx, t, BatchError(o)))
                           /\ closed' = closed
                 /\ BatchAdvance
  /\ UNCHANGED <<initialized, nreq, endpoint, magic, data, items, upfront, wpc, wret>>

\* --------------------------------------------------- close_all_positions
\* line 131: not mt5.initialize()
InitializeFailed(o) == o # "true"

\* line 135: positions is None
PositionsIsNone(o) == o = "none"

\* line 134: mt5.positions_get() is called without arguments; the 'magic'
\* query parameter m is never read
FetchedPositions(m) == SortedSeq(open)

\* line 170: ThreadPoolExecutor(max_workers=n) raises ValueError unless n > 0
PoolSizeValid(n) == n > 0

\* lines 131-132: the response to mt5.initialize() returning o (0: none yet)
StatusAfterInitialize(o) == IF InitializeFailed(o) THEN 500 ELSE 0

\* a failed fetch answered like an empty account
StatusAfterFetch_ok(o) == IF PositionsIsNone(o) THEN 200 ELSE 0

\* lines 135-137: the response to mt5.positions_get() returning o

StatusAfterFetch(o) == IF PositionsIsNone(o) THEN 500 ELSE 0

\* line 162: result.retcode == mt5.TRADE_RETCODE_DONE
RetcodeDone(o) == o = "done"

\* lines 142-167: what close_position(pos) returns after order_send; a
\* result of None has no retcode: AttributeError, caught at line 166
WorkerResult(o) ==
  IF o \in {"none", "raise"}
    THEN [status |-> "failed", error |-> "exception"]
    ELSE IF RetcodeDone(o)
      THEN [status |-> "closed", error |-> ""]
      ELSE [status |-> "failed", error |-> "retcode"]

\* line 145: symbol_info_tick(...).bid of None is an AttributeError, an
\* exception of the call is caught by the same clause
WorkerTickFailed(o) == o \in {"none", "raise"}

NoResult == [status |-> "-", error |-> ""]

\* lines 175-178 without the else branch
Collected_dropFailed(cl, fl, i, t, r) ==
  IF r.status = "closed"
    THEN [closed |-> Append(cl, ClosedEntry(i, t)), failed |-> fl]
    ELSE [closed |-> cl, failed |-> fl]

\* lines 175-178: the request thread files one future's result
Collected(cl, fl, i, t, r) ==
  IF r.status = "closed"
    THEN [closed |-> Append(cl, ClosedEntry(i, t)), failed |-> fl]
    ELSE [closed |-> cl, failed |-> Append(fl, FailedEntry(i, t, r.error))]

StartCloseAll(m) ==
  /\ UNCHANGED extra
  /\ pc \in {"idle", "done"}
  /\ nreq < MaxRequests
  /\ ResetRequest
  /\ endpoint' = "close_all"
  /\ magic' = m
  /\ data' = [kind |-> "null", tickets |-> <<>>]
  /\ items' = <<>>
  /\ res' = <<>>
  /\ idx' = 0
  /\ \E o \in InitializeOutcomes :
       /\ upfront' = [init |-> o, list |-> "-", conn |-> initialized]
       /\ IF o = "raise"
            THEN /\ status' = 500
                 /\ pc' = "done"
                 /\ initialized' = initialized
            ELSE IF InitializeFailed(o)
              THEN /\ status' = StatusAfterInitialize(o)
                   /\ pc' = "done"
                   /\ initialized' = FALSE
              ELSE /\ status' = 0
                   /\ pc' = "fetch"
                   /\ initialized' = TRUE
  /\ UNCHANGED <<open, doneTickets>>

\* lines 134-171: the position list is fetched, the pool is created and one
\* future per position is submitted
FetchAndDispatch ==
  /\ UNCHANGED extra
  /\ endpoint = "close_all"
  /\ pc = "fetch"
  /\ \E o \in ListOutcomes :
       /\ upfront' = [upfront EXCEPT !.list = o]
       /\ calls' = Bump(calls, "list")
       /\ IF o = "raise"
            THEN /\ status' = 500
                 /\ pc' = "done"
                 /\ UNCHANGED <<initialized, items, res, wpc, wret>>
            ELSE IF PositionsIsNone(o)
              THEN /\ status' = StatusAfterFetch(o)
                   /\ pc' = "done"
                   /\ initialized' = FALSE
                   /\ UNCHANGED <<items, res, wpc, wret>>
              ELSE LET ps == IF o = "list" THEN FetchedPositions(magic) ELSE <<>>
                       n == Len(ps)
                   IN /\ items' = ps
                      /\ res' = [i \in 1..n |-> EmptyRes]
                      /\ initialized' = initialized
                      /\ IF PoolSizeValid(n)
                           THEN /\ wpc' = [i \in 1..n |-> "tick"]
                                /\ wret' = [i \in 1..n |-> NoResult]
                                /\ status' = 0
                                /\ pc' = IF n = 0 THEN "join" ELSE "collect"
                           ELSE /\ wpc' = <<>>
                                /\ wret' = <<>>
                                /\ status' = 500
                                /\ pc' = "done"
  /\ UNCHANGED <<open, doneTickets, nreq, endpoint, magic, data, idx, closed, failed>>

WorkerTick(i) ==
  /\ UNCHANGED extra
  /\ endpoint = "close_all"
  /\ pc = "collect"
  /\ i \in DOMAIN wpc
  /\ wpc[i] = "tick"
  /\ \E o \in TickOutcomes :
       /\ res' = [res EXCEPT ![i].tick = o]
       /\ calls' = Bump(calls, "tick")
       /\ IF WorkerTickFailed(o)
            THEN /\ wpc' = [wpc EXCEPT ![i] = "finished"]
                 /\ wret' = [wret EXCEPT ![i] = [status |-> "failed", error |-> "exception"]]
            ELSE /\ wpc' = [wpc EXCEPT ![i] = "send"]
                 /\ wret' = wret
  /\ UNCHANGED <<gateway, nreq, endpoint, pc, magic, data, items, idx, closed, failed,
                 status, upfront>>

WorkerSend(i) ==
  /\ UNCHANGED extra
  /\ endpoint = "close_all"
  /\ pc = "collect"
  /\ i \in DOMAIN wpc
  /\ wpc[i] = "send"
  /\ \E o \in OrderOutcomes(items[i]) :
       /\ res' = [res EXCEPT ![i].order = o,
                             ![i].sends = @ + 1,
                             ![i].req = LET t == items[i]
                                            ot == WorkerOrderType(PosTypeCode(t))
                                        IN CloseRequest(t, ot, ClosePrice(ot, Quote(PosSymbol(t))))]
       /\ calls' = Bump(calls, "order")
       /\ open' = OpenAfterOrder(items[i], o)
       /\ doneTickets' = DoneAfterOrder(items[i], o)
       /\ wpc' = [wpc EXCEPT ![i] = "finished"]
       /\ wret' = [wret EXCEPT ![i] = WorkerResult(o)]
  /\ UNCHANGED <<initialized, nreq, endpoint, pc, magic, data, items, idx, closed, failed,
                 status, upfront>>

\* lines 173-178: as_completed hands over a future that has finished
Collect(i) ==
  /\ UNCHANGED extra
  /\ endpoint = "close_all"
  /\ pc = "collect"
  /\ i \in DOMAIN wpc
  /\ wpc[i] = "finished"
  /\ LET c == Collected(closed, failed, i, items[i], wret[i])
     IN /\ closed' = c.closed
        /\ failed' = c.failed
  /\ wpc' = [wpc EXCEPT ![i] = "collected"]
  /\ UNCHANGED <<gateway, nreq, endpoint, pc, magic, data, items, idx, res, calls,
                 status, upfront, wret>>

\* the loop left after the first future
AllHandedOver_first(w) == \E i \in DOMAIN w : w[i] = "collected"

\* lines 173-178: as_completed(futures) ends when every future has finished
\* and was handed to the loop body; leaving the with block of line 170
\* waits for the workers
AllHandedOver(w) == \A i \in DOMAIN w : w[i] = "collected"

\* lines 178-181: every future was handed over, the pool is left, the
\* connection is shut down and the report is returned
ShutdownAndReturn ==
  /\ UNCHANGED extra
  /\ endpoint = "close_all"
  /\ pc \in {"collect", "join"}
  /\ AllHandedOver(wpc)
  /\ initialized' = FALSE
  /\ status' = 200
  /\ pc' = "done"
  /\ UNCHANGED <<open, doneTickets, nreq, endpoint, magic, data, items, idx, res, calls,
                 closed, failed, upfront, wpc, wret>>

\* ------------------------------------------------------------ POST /order
\* (backend/mt5/app/routes/order.py)
\* a JSON value of the field 'type': a string, an integer or null
StrVal(x) == [kind |-> "str", s |-> x, n |-> 0]

IntVal(k) == [kind |-> "int", s |-> "", n |-> k]

NullVal == [kind |-> "null", s |-> "", n |-> 0]

\* Python's v == k for an integer constant k
EqInt(v, k) == v.kind = "int" /\ v.n = k

ORDER_TYPE_BUY_LIMIT == 2

ORDER_TYPE_BUY_STOP_LIMIT == 6

ORDER_TYPE_SELL_STOP_LIMIT == 7

\* lines 10-19: the documented names of the order types (four of the eight)
ORDER_TYPE_MAPPING(x) ==
  CASE x = "BUY" -> ORDER_TYPE_BUY
    [] x = "SELL" -> ORDER_TYPE_SELL
    [] x = "BUY_LIMIT" -> ORDER_TYPE_BUY_LIMIT
    [] x = "SELL_STOP_LIMIT" -> ORDER_TYPE_SELL_STOP_LIMIT

OrderTypeNames == {"BUY", "SELL", "BUY_LIMIT", "SELL_STOP_LIMIT"}

OrderTypeValues ==
  {StrVal(x) : x \in OrderTypeNames}
    \cup {IntVal(ORDER_TYPE_MAPPING(x)) : x \in OrderTypeNames}
    \cup {NullVal}

\* the bodies of POST /order: no body, a body without the required fields,
\* and bodies with symbol, volume and a 'type', with or without 'price' and
\* 'stoplimit'
OrderBodies ==
  [present : BOOLEAN, required : BOOLEAN, type : OrderTypeValues,
   hasPrice : BOOLEAN, hasStoplimit : BOOLEAN]

IdleOrder ==
  [pc |-> "idle",
   body |-> [present |-> FALSE, required |-> FALSE, type |-> NullVal,
             hasPrice |-> FALSE, hasStoplimit |-> FALSE],
   action |-> "-", price |-> "-", status |-> 0, error |-> "", n |-> 0]

\* line 98: order_type_mt5 = data.get('type'); the value of the body is
\* used as it is, ORDER_TYPE_MAPPING is not applied
OrderTypeOf(b) == b.type

\* line 115: order_type_mt5 in [mt5.ORDER_TYPE_BUY, mt5.ORDER_TYPE_SELL]
IsMarketOrder(v) == EqInt(v, ORDER_TYPE_BUY) \/ EqInt(v, ORDER_TYPE_SELL)

\* line 116
IsStopLimitOrder(v) ==
  EqInt(v, ORDER_TYPE_BUY_STOP_LIMIT) \/ EqInt(v, ORDER_TYPE_SELL_STOP_LIMIT)

\* line 123: tick.ask if order_type_mt5 == mt5.ORDER_TYPE_BUY else tick.bid
MarketPrice(v) == IF EqInt(v, ORDER_TYPE_BUY) THEN "ask" ELSE "bid"

OrderReply(b, st, err, act, pr) ==
  [pc |-> "done", body |-> b, action |-> act, price |-> pr, status |-> st,
   error |-> err, n |-> ord.n + 1]

\* lines 86-133: the body is validated and the request prepared up to the
\* first call of the terminal
OrderStart(b) ==
  /\ ord.pc \in {"idle", "done"}
  /\ ord.n < MaxRequests
  /\ LET v == OrderTypeOf(b) IN
     ord' =
       IF ~b.present
         THEN OrderReply(b, 400, "Request body is required", "-", "-")
       ELSE IF ~b.required
         THEN OrderReply(b, 400, "Missing required fields", "-", "-")
       ELSE IF v.kind = "null"
         THEN OrderReply(b, 400, "Invalid order type", "-", "-")
       ELSE IF IsMarketOrder(v)
         THEN [OrderReply(b, 0, "", "DEAL", "-") EXCEPT !.pc = "tick"]
       ELSE IF ~b.hasPrice
         THEN OrderReply(b, 400, "The 'price' field is required for pending orders",
                         "PENDING", "-")
       ELSE IF IsStopLimitOrder(v) /\ ~b.hasStoplimit
         THEN OrderReply(b, 400, "The 'stoplimit' field is required", "PENDING", "given")
       ELSE [OrderReply(b, 0, "", "PENDING", "given") EXCEPT !.pc = "send"]
  /\ UNCHANGED <<open, initialized, doneTickets, nreq, endpoint, pc, magic, data,
                 items, idx, res, calls, closed, failed, status, upfront, wpc, wret,
                 other>>

\* lines 120-123
OrderTick ==
  /\ ord.pc = "tick"
  /\ \E o \in TickOutcomes :
       ord' =
         IF o = "raise"
           THEN [ord EXCEPT !.pc = "done", !.status = 500, !.error = "Internal server error"]
         ELSE IF o = "none"
           THEN [ord EXCEPT !.pc = "done", !.status = 400, !.error = "Failed to get symbol price"]
         ELSE [ord EXCEPT !.pc = "send", !.price = MarketPrice(OrderTypeOf(ord.body))]
  /\ UNCHANGED <<open, initialized, doneTickets, nreq, endpoint, pc, magic, data,
                 items, idx, res, calls, closed, failed, status, upfront, wpc, wret,
                 other>>

NewOrderOutcomes ==
  IF initialized THEN {"done", "reject", "none", "raise"} ELSE {"none", "raise"}

\* lines 143-170
OrderSend ==
  /\ ord.pc = "send"
  /\ \E o \in NewOrderOutcomes :
       ord' =
         IF o = "raise"
           THEN [ord EXCEPT !.pc = "done", !.status = 500, !.error = "Internal server error"]
         ELSE IF o = "none"
           THEN [ord EXCEPT !.pc = "done", !.status = 400, !.error = "Order send failed"]
         ELSE IF o # "done"
           THEN [ord EXCEPT !.pc = "done", !.status = 400, !.error = "Order failed"]
         ELSE [ord EXCEPT !.pc = "done", !.status = 200]
  /\ UNCHANGED <<open, initialized, doneTickets, nreq, endpoint, pc, magic, data,
                 items, idx, res, calls, closed, failed, status, upfront, wpc, wret,
                 other>>

\* ------------------------------------- a concurrent close_all_positions
\* A second close_all_positions request, served by another thread of the
\* server while the first request is in progress; of its handler the two
\* calls that act on the process-wide connection are modelled.
\* line 131: mt5.initialize() succeeds
OtherInitialize ==
  /\ other = "idle"
  /\ other' = "running"
  /\ initialized' = TRUE
  /\ UNCHANGED <<open, doneTickets, nreq, endpoint, pc, magic, data, items, idx, res,
                 calls, closed, failed, status, upfront, wpc, wret, ord>>

\* lines 136 and 180: mt5.shutdown()
OtherShutdown ==
  /\ other = "running"
  /\ other' = "done"
  /\ initialized' = FALSE
  /\ UNCHANGED <<open, doneTickets, nreq, endpoint, pc, magic, data, items, idx, res,
                 calls, closed, failed, status, upfront, wpc, wret, ord>>

\* --------------------------------------------------------- initial state
Init ==
  /\ open \in SUBSET Tickets
  /\ initialized \in BOOLEAN
  /\ doneTickets = {}
  /\ nreq = 0
  /\ endpoint = "none"
  /\ pc = "idle"
  /\ magic = NoMagic
  /\ data = [kind |-> "null", tickets |-> <<>>]
  /\ items = <<>>
  /\ idx = 0
  /\ res = <<>>
  /\ calls = ZeroCalls
  /\ closed = <<>>
  /\ failed = <<>>
  /\ status = 0
  /\ upfront = NoUpfront
  /\ wpc = <<>>
  /\ wret = <<>>
  /\ ord = IdleOrder
  /\ other = "idle"

Next ==
  \/ \E d \in Bodies : StartBatch(d)
  \/ BatchLookup
  \/ BatchTick
  \/ BatchSend
  \/ \E m \in Magics \cup {NoMagic} : StartCloseAll(m)
  \/ FetchAndDispatch
  \/ \E i \in 1..NumTickets : WorkerTick(i)
  \/ \E i \in 1..NumTickets : WorkerSend(i)
  \/ \E i \in 1..NumTickets : Collect(i)
  \/ ShutdownAndReturn

Spec == Init /\ [][Next]_vars

NextConc ==
  \/ Next
  \/ OtherInitialize
  \/ OtherShutdown

\* the requests of routes/position.py with a second close_all_positions
\* request served at the same time
SpecConc == Init /\ [][NextConc]_vars

NextOrder ==
  \/ \E b \in OrderBodies : OrderStart(b)
  \/ OrderTick
  \/ OrderSend

\* the requests of POST /order, served one after the other
SpecOrder == Init /\ [][NextOrder]_vars

\* ------------------------------------------------------------ properties
InClosed(i) == \E k \in 1..Len(closed) : closed[k].item = i

InFailed(i) == \E k \in 1..Len(failed) : failed[k].item = i

InFailedWith(i, e) == \E k \in 1..Len(failed) : failed[k] = FailedEntry(i, items[i], e)

CountClosed(i) == Cardinality({k \in 1..Len(closed) : closed[k] = ClosedEntry(i, items[i])})

CountFailed(i) ==
  Cardinality({k \in 1..Len(failed) : failed[k].item = i /\ failed[k].ticket = items[i]})

\* the outcome of item i has reached the lists: at once in the loop of
\* close_positions_batch, when its future was handed over in the pool
Filed(i) == IF endpoint = "batch" THEN TRUE ELSE wpc[i] = "collected"

ReportReturned == pc = "done" /\ status = 200

\* C1: a report that is returned holds exactly one outcome per dispatched
\* item, every outcome in exactly one of the two lists, and
\* closed-count + failed-count = N.
C1_ReportPartitionsItems ==
  ReportReturned =>
    /\ Len(closed) + Len(failed) = Len(items)
    /\ \A i \in 1..Len(items) : CountClosed(i) + CountFailed(i) = 1

C1_Witness ==
  /\ ReportReturned
  /\ endpoint = "close_all"
  /\ Len(items) = 2
  /\ Len(closed) = 1
  /\ Len(failed) = 1

\* the body is an object whose 'tickets' is a list of integers
WellFormedBody(d) ==
  /\ d.kind = "list"
  /\ \A k \in 1..Len(d.tickets) : d.tickets[k] # NonIntElem

\* an error return or an exception of a gateway call made for item i
ItemError(i) ==
  \/ res[i].lookup \in {"none", "empty", "raise"}
  \/ res[i].tick \in {"none", "raise"}
  \/ res[i].order \in {"none", "reject", "raise"}

\* C2: a per-item error never leaves the batch: the request (of
\* close_all_positions, or of close_positions_batch with a list of integer
\* tickets) ends with status 200, the item is a failed outcome and every
\* item was attempted.
C2_ItemErrorsStayInside ==
  (/\ pc = "done"
   /\ endpoint = "batch" => WellFormedBody(data)
   /\ \E i \in DOMAIN res : ItemError(i)) =>
    /\ status = 200
    /\ \A i \in DOMAIN res : ItemError(i) => InFailed(i)
    /\ \A i \in DOMAIN res : InClosed(i) \/ InFailed(i)

\* C3: closing an empty set returns status 200 with both lists empty and
\* makes no quote fetch and no order submission.
C3_EmptySetEmptyReport ==
  (/\ pc = "done"
   /\ \/ endpoint = "close_all" /\ upfront.list = "list" /\ items = <<>>
      \/ endpoint = "batch" /\ data.kind = "list" /\ data.tickets = <<>>) =>
    /\ status = 200
    /\ closed = <<>>
    /\ failed = <<>>
    /\ calls.tick = 0
    /\ calls.order = 0

\* C4: with a magic filter, a position whose magic tag differs from the
\* filter receives no order submission, stays open and is in neither list.
C4_OnlyMatchingMagic ==
  (endpoint = "close_all" /\ magic # NoMagic) =>
    \A i \in 1..Len(items) :
      PosMagic(items[i]) # magic =>
        /\ res[i].order = "-"
        /\ ~InClosed(i)
        /\ ~InFailed(i)

\* C5: when the upfront resolution of close_all_positions fails
\* (initialize returns false or raises, or the position-list fetch returns
\* None or raises) the request ends with status 500 and made no per-item
\* gateway call.
C5_ResolutionFailureAborts ==
  (/\ endpoint = "close_all"
   /\ upfront.init \in {"false", "raise"} \/ upfront.list \in {"none", "raise"}) =>
    /\ pc = "done"
    /\ status = 500
    /\ calls.lookup = 0
    /\ calls.tick = 0
    /\ calls.order = 0
    /\ closed = <<>>
    /\ failed = <<>>

C5_Witness ==
  /\ endpoint = "close_all"
  /\ upfront.list = "none"
  /\ open # {}
  /\ status = 500

\* C6: in close_positions_batch a ticket whose lookup finds no open
\* position is in failed_closes with "Position not found.", not in
\* successful_closes, has no quote fetch and no order submission, and the
\* ticket after it is processed.
C6_NotFoundFailsAndLoopGoesOn ==
  endpoint = "batch" =>
    \A i \in DOMAIN res :
      res[i].lookup \in {"none", "empty"} =>
        /\ InFailedWith(i, "Position not found.")
        /\ ~InClosed(i)
        /\ res[i].tick = "-"
        /\ res[i].order = "-"
        /\ i < Len(items) => (pc = "lookup" /\ idx = i + 1) \/ res[i + 1].lookup # "-"

C6_Witness ==
  /\ endpoint = "batch"
  /\ ReportReturned
  /\ Len(items) = 2
  /\ res[1].lookup = "empty"
  /\ InFailedWith(1, "Position not found.")
  /\ InClosed(2)

\* C7: a body that is missing, lacks 'tickets' or has a 'tickets' of the
\* wrong type (not a list, or a list with a non-integer element) is
\* answered with status 400 and no gateway call is made.
C7_MalformedBodyRejected ==
  (endpoint = "batch" /\ ~WellFormedBody(data)) =>
    /\ calls = ZeroCalls
    /\ pc = "done"
    /\ status = 400

\* the quote fetch of item i returned None (in the pool also: raised)
QuoteFailed(i) ==
  \/ res[i].tick = "none"
  \/ endpoint = "close_all" /\ res[i].tick = "raise"

\* C8: a quote fetch that fails for one item fails that item only and
\* submits no order for it; the other items are still attempted, and an
\* item is closed or failed by its own order result alone.
C8_QuoteFailureIsLocal ==
  \A i \in DOMAIN res :
    /\ QuoteFailed(i) =>
         /\ res[i].order = "-"
         /\ ~InClosed(i)
         /\ Filed(i) => InFailed(i)
         /\ endpoint = "batch" /\ i < Len(items) =>
              (pc = "lookup" /\ idx = i + 1) \/ res[i + 1].lookup # "-"
         /\ endpoint = "close_all" /\ pc = "done" =>
              \A j \in DOMAIN res : res[j].tick # "-" /\ (InClosed(j) \/ InFailed(j))
    /\ InClosed(i) => res[i].order = "done"
    /\ InFailed(i) => res[i].order # "done"

C8_Witness ==
  /\ ReportReturned
  /\ Len(items) = 2
  /\ \E i, j \in DOMAIN res :
       /\ res[i].tick = "none"
       /\ InFailed(i)
       /\ res[j].order = "done"
       /\ InClosed(j)

\* C9: a ticket that was closed by a DONE order and is attempted again
\* through close_positions_batch, later in the same list or in a later
\* request, is never found again, gets no second order, and whenever the
\* lookup answers it is a "Position not found." failure that does not end
\* the request with an error.
C9_ClosedTicketIsNotFound ==
  endpoint = "batch" =>
    \A i \in DOMAIN res :
      (res[i].wasClosed /\ res[i].lookup # "-") =>
        /\ res[i].lookup # "found"
        /\ res[i].order = "-"
        /\ ~InClosed(i)
        /\ res[i].lookup # "raise" =>
             /\ InFailedWith(i, "Position not found.")
             /\ ~(pc = "done" /\ status = 500 /\ idx = i)

C9_Witness ==
  /\ endpoint = "batch"
  /\ ReportReturned
  /\ Len(items) = 2
  /\ items[1] = items[2]
  /\ res[1].order = "done"
  /\ InClosed(1)
  /\ res[2].wasClosed
  /\ res[2].lookup = "empty"
  /\ InFailedWith(2, "Position not found.")

\* C10: a ticket is in the closed list if and only if its order submission
\* returned the DONE code; a submission with no result or with another
\* code puts it in the failed list with an error detail.
C10_ClosedIffDone ==
  \A i \in DOMAIN res :
    /\ InClosed(i) => res[i].order = "done"
    /\ (res[i].order = "done" /\ Filed(i)) => InClosed(i) /\ ~InFailed(i)
    /\ (res[i].order \in {"none", "reject"} /\ Filed(i)) =>
         /\ ~InClosed(i)
         /\ \E k \in 1..Len(failed) : failed[k].item = i /\ failed[k].error # ""

C10_Witness ==
  /\ ReportReturned
  /\ \E i, j \in DOMAIN res :
       /\ res[i].order = "done"
       /\ InClosed(i)
       /\ res[j].order \in {"none", "reject"}
       /\ InFailed(j)

\* C11: every close request submitted by either endpoint targets the
\* position's own ticket and symbol with its full volume, has the side
\* opposite to the position's side, and is priced at the bid when it sells
\* and at the ask when it buys.
C11_RequestBuiltFromSnapshot ==
  \A i \in DOMAIN res :
    res[i].order # "-" =>
      LET t == items[i]
          r == res[i].req
      IN /\ r.position = t
         /\ r.symbol = PosSymbol(t)
         /\ r.volume = PosVolume(t)
         /\ PosType(t) = "buy" => r.type = ORDER_TYPE_SELL /\ r.price = Bid(PosSymbol(t))
         /\ PosType(t) = "sell" => r.type = ORDER_TYPE_BUY /\ r.price = Ask(PosSymbol(t))

C11_Witness ==
  /\ ReportReturned
  /\ \E i, j \in DOMAIN res :
       /\ res[i].order = "done"
       /\ PosType(items[i]) = "buy"
       /\ res[j].order = "done"
       /\ PosType(items[j]) = "sell"

\* the unit of work of item i has made a gateway call and has more to do
InFlight(i) ==
  IF endpoint = "batch"
    THEN idx = i /\ pc \in {"tick", "send"}
    ELSE pc = "collect" /\ wpc[i] = "send"

\* the unit of work of item j has made no gateway call yet
Unstarted(j) ==
  IF endpoint = "batch" THEN res[j].lookup = "-" ELSE res[j].tick = "-"

\* the first gateway call of item j can be made now
Startable(j) ==
  IF endpoint = "batch"
    THEN pc = "lookup" /\ idx = j
    ELSE pc = "collect" /\ wpc[j] = "tick"

\* C12: in every batch mode the units of work are concurrent: while one
\* item is between its gateway round trips, every item that has not started
\* can start its own.
C12_NoUnitWaitsForSibling ==
  (endpoint = "batch" => WellFormedBody(data)) =>
    \A i, j \in DOMAIN res :
      (i # j /\ InFlight(i) /\ Unstarted(j)) => Startable(j)

\* C13: POST /order with type "BUY" or "SELL" and no 'price' is a market
\* order: it is given the deal action and is never answered with the 400
\* of a missing 'price'.
C13_NamedMarketOrderNeedsNoPrice ==
  (/\ ord.pc = "done"
   /\ ord.body.present
   /\ ord.body.required
   /\ ord.body.type \in {StrVal("BUY"), StrVal("SELL")}
   /\ ~ord.body.hasPrice) =>
    /\ ord.action = "DEAL"
    /\ ord.error # "The 'price' field is required for pending orders"

\* the items of the current request that carry ticket t and for which an
\* order was submitted
SubmittedFor(t) == {i \in DOMAIN res : items[i] = t /\ res[i].sends > 0}

\* for item i the order submission was made, or is the next step of its
\* unit of work
SentOrSending(i) ==
  \/ res[i].sends = 1
  \/ endpoint = "batch" /\ pc = "send" /\ idx = i
  \/ endpoint = "close_all" /\ pc = "collect" /\ wpc[i] = "send"

\* C14 as stated: within one request at most one order submission is made
\* per ticket value, also when the value occurs more than once in the list.
C14_OneAttemptPerTicket ==
  \A t \in Tickets :
    /\ Cardinality(SubmittedFor(t)) <= 1
    /\ \A i \in SubmittedFor(t) : res[i].sends = 1

\* C14 as amended: within one request at most one order submission is made
\* per dispatched item, exactly one when its lookup and quote succeeded and
\* none otherwise, whatever the order returns; the positions of
\* close_all_positions have distinct tickets, so there it is one per ticket.
C14_OneAttemptPerItem ==
  /\ \A i \in DOMAIN res :
       /\ res[i].sends <= 1
       /\ res[i].tick = "ok" => SentOrSending(i)
       /\ res[i].sends = 1 => res[i].tick = "ok" /\ res[i].order # "-"
  /\ endpoint = "close_all" => \A t \in Tickets : Cardinality(SubmittedFor(t)) <= 1

C14_Witness ==
  /\ endpoint = "batch"
  /\ ReportReturned
  /\ Len(items) = 2
  /\ items[1] = items[2]
  /\ res[1].order = "reject"
  /\ res[1].sends = 1
  /\ res[2].sends = 1

\* no worker of the pool has a gateway call pending or a result not yet
\* handed over
NoWorkerPending == \A i \in DOMAIN wpc : wpc[i] = "collected"

\* C15: in close_all_positions the report is returned, and the connection
\* shut down, only after every worker has finished and its result was
\* filed, and the lists are written by the request thread only: a step in
\* which a worker makes a gateway call leaves closed and failed alone.
C15_ReportAfterAllWorkers ==
  /\ [](endpoint = "close_all" /\ pc = "done" /\ status = 200 => NoWorkerPending)
  /\ [][(endpoint = "close_all" /\ pc = "collect" /\ (res' # res \/ wret' # wret))
          => (closed' = closed /\ failed' = failed)]_vars
  /\ [][(endpoint = "close_all" /\ pc = "collect" /\ initialized /\ ~initialized')
          => NoWorkerPending]_vars

C15_Witness ==
  /\ endpoint = "close_all"
  /\ ReportReturned
  /\ Len(items) = 2
  /\ NoWorkerPending
  /\ Len(closed) + Len(failed) = 2

\* C16: a close_all_positions request that found the connection initialized
\* and to which the terminal answered (initialize() succeeded, the position
\* list was supplied) leaves it initialized when it returns, whatever the
\* status.
C16_ConnectionLeftAsFound ==
  (/\ endpoint = "close_all"
   /\ pc = "done"
   /\ upfront.conn
   /\ upfront.init = "true"
   /\ upfront.list = "list") => initialized

\* the request of routes/position.py has gateway calls pending or yet to issue
InProgress == pc \notin {"idle", "done"}

\* C17: while a request that started on an initialized connection (or
\* initialized it itself) is in progress, the connection stays initialized:
\* no other request shuts it down under the request's gateway calls.
C17_ConnectionLiveWhileServing ==
  (/\ InProgress
   /\ endpoint = "batch" => upfront.conn /\ WellFormedBody(data)
   /\ endpoint = "close_all" => upfront.init = "true") => initialized

====
